---- MODULE Spec2Model ----
(***************************************************************************)
(* Model of the sundial tracer om.py ("ombre"): the command-line parser    *)
(* get_args, the parameter solver S.init, the shadow projector and the     *)
(* line families of go_to_work, and the two render targets (CGA_interface  *)
(* on screen, SVG_interface to a file).  A second specification,           *)
(* SunPosition, models the page st_pages/sunposition.py: the stored date   *)
(* and the two buttons that move it by one time frame.                     *)
(*                                                                         *)
(* Numbers.  Python floats are modelled as fixed-point integers: a value v *)
(* is the integer v * Unit.  The model's resolution (one integer step) is  *)
(* the epsilon SMALL of the program, so the epsilon guards of the code     *)
(* (x + SMALL, hsty < SMALL) meet the values they are written for.  Angles *)
(* are radians in the same fixed point.                                    *)
(***************************************************************************)
EXTENDS Integers, Sequences, FiniteSets, TLC

\* ---------------------------------------------------------------- numbers

\* the fixed-point one: 1.0 is Unit integer steps
Unit == 1000

\* om.py:64  SMALL = 1e-10, the "very small number": one step of resolution
SMALL == 1

\* om.py:65  LARGE = 1e+10, the "very large number": Unit * Unit steps
LARGE == Unit * Unit

Abs(a) == IF a < 0 THEN -a ELSE a

Sgn(a) == IF a < 0 THEN -1 ELSE IF a > 0 THEN 1 ELSE 0

\* float division, rounded towards zero on both sides of zero (b # 0)
Quo(a, b) ==
    IF a >= 0 THEN (IF b > 0 THEN a \div b ELSE -(a \div (-b)))
    ELSE (IF b > 0 THEN -((-a) \div b) ELSE (-a) \div (-b))

\* float product of two fixed-point values
Mul(a, b) == Quo(a * b, Unit)

\* float quotient of two fixed-point values (b # 0)
Div(a, b) == Quo(a * Unit, b)

\* math.pi
PI == (355 * Unit) \div 113

HalfPi == PI \div 2

\* sin on [0, pi/2], by its series x - x^3/3! + x^5/5! - x^7/7!, at most 1
SinSeries(x) ==
    LET x2 == Mul(x, x)
        r == Mul(x, Unit - Quo(Mul(x2, Unit - Quo(Mul(x2, Unit - Quo(x2, 42)), 20)), 6))
    IN  IF r > Unit THEN Unit ELSE r

\* the values of sin on [0, pi/2], computed once
SinTab == [x \in 0..HalfPi |-> SinSeries(x)] @@ <<>>

\* an angle brought back into (-pi, pi]
Wrap(x) ==
    LET r == x % (2 * PI)
    IN  IF r > PI THEN r - 2 * PI ELSE r

\* sin of an angle w of (-pi, pi], by the symmetries of the sine
SinFold(w) == Sgn(w) * SinTab[IF Abs(w) > HalfPi THEN PI - Abs(w) ELSE Abs(w)]

\* math.sin
sin(x) == SinFold(Wrap(x))

\* math.cos
cos(x) == sin(x + HalfPi)

\* the quotient sn / cs of a sine and a cosine: finite everywhere, very
\* large where the cosine vanishes
Ratio(sn, cs) == IF cs = 0 THEN Sgn(sn) * LARGE ELSE Div(sn, cs)

\* math.tan
tan(x) == Ratio(sin(x), cos(x))

\* the largest angle of [0, pi/2] whose sine does not exceed v (0 <= v <= 1);
\* for v > 0 it lies between v and v * pi/2
ASinPick(v) ==
    IF v = 0 THEN 0
    ELSE CHOOSE c \in v..HalfPi : SinTab[c] <= v /\ (c = HalfPi \/ SinTab[c + 1] > v)

\* the values of asin on [0, 1], computed once
ASinTab == [v \in 0..Unit |-> ASinPick(v)] @@ <<>>

\* the domain of math.asin and math.acos: outside it they raise ValueError
InDomain(v) == Abs(v) <= Unit

\* math.asin (InDomain(v))
asin(v) == Sgn(v) * ASinTab[Abs(v)]

\* math.acos (InDomain(v))
acos(v) == HalfPi - asin(v)

\* the tangent of the angle a of [0, pi/4] does not exceed the slope t/Unit
TanBelow(a, t) == SinTab[a] * Unit <= t * SinTab[HalfPi - a]

\* the values of atan on the slopes t/Unit of [0, 1], computed once: the largest
\* angle of [0, pi/4] whose tangent does not exceed the slope
ATanTab ==
    [t \in 0..Unit |->
        CHOOSE a \in ((3 * t) \div 4)..(HalfPi \div 2) :
            /\ TanBelow(a, t)
            /\ (a = HalfPi \div 2 \/ ~TanBelow(a + 1, t))] @@ <<>>

\* atan of the slope y/x in the first quadrant (x, y >= 0, not both 0)
ATanQ(y, x) ==
    IF y <= x THEN ATanTab[Quo(y * Unit, x)]
    ELSE HalfPi - ATanTab[Quo(x * Unit, y)]

\* both coordinates scaled down together until they fit the fixed point
RECURSIVE Fit(_, _)
Fit(y, x) ==
    IF Abs(x) <= LARGE \div Unit /\ Abs(y) <= LARGE \div Unit THEN <<y, x>>
    ELSE Fit(Quo(y, 2), Quo(x, 2))

\* the angle of the quadrant of (x, y) from the angle q of (|x|, |y|)
Quadrant(y, x, q) ==
    IF x >= 0 THEN (IF y < 0 THEN -q ELSE q)
    ELSE (IF y < 0 THEN q - PI ELSE PI - q)

\* atan2 of coordinates that fit the fixed point
ATanFit(f) ==
    Quadrant(f[1], f[2], IF f[1] = 0 /\ f[2] = 0 THEN 0 ELSE ATanQ(Abs(f[1]), Abs(f[2])))

\* math.atan2
atan2(y, x) == ATanFit(Fit(y, x))

\* math.atan
atan(t) == atan2(t, Unit)

\* math.radians, of an angle in degrees (fixed point): pi/180 = 355/(113*180)
rad(d) == Quo(d * 71, 4068)

\* om.py:60  tim: radians to hours of the 24 hour circle
tim(a) == Quo(a * 12 * Unit, PI)

\* ------------------------------------------------------------------ state

VARIABLES
    S,      \* class S: the sundial parameters (class attributes, process wide)
    G,      \* class G: the graphic state (class attributes, process wide)
    GRI,    \* the render target of the current run
    out,    \* what the render target has received, per line family
    pc,     \* position of the process: in main, in a family of go_to_work, ...
    pos,    \* the loop counters of go_to_work
    exc,    \* the exception that ended the run ("" when none)
    argv,   \* sys.argv[1:]: the command line of the hosting process
    debug,  \* the module global debug
    session_state,  \* st.session_state of the sun-position page
    frame,          \* the time frame selected in the side bar of the page
    pressed         \* the runs of the page: their number, and the last two
                    \* runs in which a button was pressed

vars == <<S, G, GRI, out, pc, pos, exc, argv, debug, session_state, frame, pressed>>

\* the variables of the sun-position page
page == <<session_state, frame, pressed>>

\* the variables of the tracer
tracer == <<S, G, GRI, out, pc, pos, exc, argv, debug>>

ON == TRUE

OFF == FALSE

\* the keys of G.lines, in order
Tags == <<"_pg", "txt", "std", "ext", "hyp", "teq", "sha">>

TagSet == {Tags[n] : n \in 1..Len(Tags)}

\* om.py:80-107  the class attributes of S as the module is loaded
S0 ==
    [lat |-> 807, lon |-> -107, ori |-> 524, slo |-> 1571, zon |-> Unit,
     tdi |-> 0, tdirad |-> 0, rot |-> 0, lam |-> 0, lom |-> 0,
     perp |-> OFF, style |-> Unit, hsty |-> 0, lsty |-> 0,
     totx |-> 3700, toty |-> 2000, addx |-> -300, addy |-> Unit,
     tmpx |-> 0, tmpy |-> 0, tmpz |-> 0,
     noct |-> OFF, mark |-> OFF, dohigh |-> ON]

\* om.py:180-234  the class attributes of G as the module is loaded; the last
\* assignment of G.lines (the black-and-white scheme) is the one in force
G0 ==
    [screen |-> TRUE, tofile |-> "", scale |-> 200, fscrn |-> OFF,
     maxx |-> 1000, maxy |-> 1000, pen |-> OFF,
     color |-> "cbold", active |-> "_pg",
     on |-> [t \in TagSet |-> t # "sha"]]

\* no render target yet
GRI0 == [kind |-> "none", open |-> FALSE, closed |-> 0,
         hdr |-> 0, pts |-> <<>>, last_pos |-> <<0, 0>>]

\* the record of the last call of shadow(): none yet
no_shadow == [called |-> FALSE, tro |-> 0, ah |-> 0, ret |-> OFF, drew |-> FALSE]

\* nothing received yet
out0 ==
    [gstart |-> [t \in TagSet |-> 0], gend |-> [t \in TagSet |-> 0],
     prim |-> [t \in TagSet |-> 0], proj |-> [t \in TagSet |-> 0],
     rects |-> 0, circles |-> 0, strokes |-> 0, markers |-> 0, texts |-> 0,
     closing |-> 0, depth |-> 0, gap |-> FALSE, bridged |-> FALSE,
     branch |-> "none", forced |-> FALSE, last |-> no_shadow,
     event |-> "none", seen |-> {}, run |-> <<>>, lifts |-> {},
     penups |-> 0, acos |-> {}, curves |-> {}, edges |-> {}]

pos0 == [hour |-> 0, i |-> 0]

\* the page has not run yet
pressed0 == [runs |-> 0, last |-> <<>>]

\* ---------------------------------------------------------- command lines

\* The command lines the hosting process is started with.  A command line is
\* the sequence of its tokens, a token the sequence of its characters.

\* an option letter alone: -l, -x, ...
Dash(letter) == <<"-", letter>>

\* -x / -i with a value that is neither a key of G.lines nor an index 0..6
UnknownLineCommands ==
    { <<Dash("x"), <<"f", "o", "o">>>>,
      <<Dash("i"), <<"9">>>>,
      <<<<"-", "x", "7">>>>,
      <<Dash("i"), <<"-", "1">>>> }

\* -x / -i with a key of G.lines or an index
KnownLineCommands ==
    { <<Dash("x"), <<"s", "t", "d">>>>,
      <<Dash("i"), <<"t", "x", "t">>>>,
      <<<<"-", "i", "2">>>>,
      <<Dash("i"), <<"6">>>> }

\* an option that waits for a number, followed by a token that is no number
\* and no degrees:minutes:seconds
MalformedValueCommands ==
    { <<Dash("l"), <<"a", "b", "c">>>>,
      <<Dash("p"), <<"4", "x", "6">>>>,
      <<Dash("d"), <<"1", ".", "2", ".", "3">>>>,
      <<Dash("e"), <<"x">>>>,
      <<Dash("z"), <<"o", "n", "e">>>> }

\* the same options with a well-formed value
ValueCommands ==
    { <<Dash("l"), <<"4", "6", ":", "3", "0">>>>,
      <<<<"-", "l", "4", "6">>>>,
      <<Dash("g"), <<"-", "6">>>>,
      <<Dash("o"), <<"1", "2">>, Dash("p"), <<"9", "0">>>>,
      <<Dash("z"), <<"1">>>>,
      <<Dash("e"), <<"1", "0", "0">>>>,
      <<Dash("e"), <<"0">>>>,
      <<Dash("h"), <<"1">>, Dash("v"), <<"1">>>>,
      <<Dash("H"), <<"4">>, Dash("V"), <<"3">>>>,
      <<Dash("n"), <<"o", "u", "t">>>> }

\* an option that waits for a value at the end of the command line, or
\* followed by another option
MissingValueCommands ==
    { <<Dash("l")>>,
      <<Dash("l"), Dash("k")>>,
      <<Dash("n"), Dash("k")>>,
      <<Dash("x"), Dash("k")>>,
      <<Dash("d"), Dash("s"), <<"2">>>>,
      <<Dash("k"), Dash("e")>> }

\* a token that is no option while no option waits for a value
BareTokenCommands ==
    { <<<<"4", "6">>>>,
      <<Dash("l"), <<"4", "6">>, <<"4", "7">>>>,
      <<<<"+">>>>,
      <<Dash("k"), <<"o", "u", "t">>>> }

\* the style and the gnomon: the options in order, each with its letter, its
\* value as it is spelled and the number spelled
GnomonOptions ==
    { <<<<"d", <<"2">>, 2 * Unit>>>>,
      <<<<"s", <<"2">>, 2 * Unit>>>>,
      <<<<"d", <<"2">>, 2 * Unit>>, <<"s", <<"3">>, 3 * Unit>>>>,
      <<<<"s", <<"3">>, 3 * Unit>>, <<"d", <<"2">>, 2 * Unit>>>>,
      <<<<"d", <<"2">>, 2 * Unit>>, <<"s", <<"3">>, 3 * Unit>>,
        <<"d", <<"0", ".", "5">>, Unit \div 2>>>>,
      <<<<"s", <<"0", ".", "5">>, Unit \div 2>>, <<"s", <<"2">>, 2 * Unit>>>>,
      <<<<"s", <<"3">>, 3 * Unit>>, <<"d", <<"0">>, 0>>>> }

\* the command line of such options: -d 2 -s 3 ...
RECURSIVE Spelled(_)
Spelled(opts) ==
    IF opts = <<>> THEN <<>>
    ELSE <<Dash(opts[1][1]), opts[1][2]>> \o Spelled(Tail(opts))

GnomonCommands == { Spelled(opts) : opts \in GnomonOptions }

\* the options without a value, and an unknown one
SwitchCommands ==
    { <<Dash("?")>>, <<Dash("-")>>, <<Dash("c")>>, <<Dash("k")>>,
      <<<<"-", "k", "+">>>>, <<<<"-", "b", "-">>>>, <<<<"/", "f">>>>,
      <<Dash("q")>>, <<<<"-", "k", "x">>>>, <<<<"-">>>> }

\* sys.argv[1:] is one of these; the first is the empty command line
CommandLines ==
    {<<>>} \cup UnknownLineCommands \cup KnownLineCommands
    \cup MalformedValueCommands \cup ValueCommands \cup MissingValueCommands
    \cup BareTokenCommands \cup GnomonCommands \cup SwitchCommands

\* the process as the module is loaded
Init ==
    /\ S = S0
    /\ G = G0
    /\ GRI = GRI0
    /\ out = out0
    /\ pc = "loaded"
    /\ pos = pos0
    /\ exc = ""
    /\ argv \in CommandLines
    /\ debug = FALSE
    /\ session_state = <<>>
    /\ frame = "year"
    /\ pressed = pressed0

\* ---------------------------------------------------------------- context

\* the context threaded through a handler: S, G, the render target, what it
\* has received, the value returned by the last shadow(), the local variable
\* "drawing" of go_to_work, the exception raised so far and the calls the
\* handler has made to the render target, in order.  Once an exception is
\* raised the statements that follow are not executed.
Ctx(s, g, t, o) ==
    [S |-> s, G |-> g, GRI |-> t, out |-> o, ret |-> OFF, drawing |-> OFF, exc |-> "",
     calls |-> <<>>]

\* the context of the running handler
Cur == Ctx(S, G, GRI, out)

\* what exit() raises
SystemExit == {"SystemExit(0)", "SystemExit(1)"}

\* where the process is after a handler: its next position, or out of the
\* program by exit() or by an exception that nothing catches
After(c, npc) ==
    IF c.exc = "" THEN npc ELSE IF c.exc \in SystemExit THEN "exited" ELSE "raised"

\* the handler's effects are stored; an exception ends the run
Commit(c, npc, npos) ==
    /\ S' = c.S
    /\ G' = c.G
    /\ GRI' = c.GRI
    /\ out' = c.out
    /\ exc' = c.exc
    /\ pc' = After(c, npc)
    /\ pos' = IF c.exc # "" THEN pos ELSE npos
    /\ UNCHANGED <<argv, debug, page>>

\* ----------------------------------------------------------------- solver

\* om.py:120-122  the wall is a slope: the spherical triangle is solved
wall_spherical(c) ==
    LET a == Mul(cos(c.S.slo), sin(c.S.lat))
             - Mul(Mul(sin(c.S.slo), cos(c.S.lat)), cos(c.S.ori))
        b == [c EXCEPT !.out.branch = "spherical"]
    IN  IF ~InDomain(a) THEN [b EXCEPT !.exc = "ValueError"]
        ELSE IF tan(c.S.slo) = 0
        THEN [b EXCEPT !.S.lam = asin(a), !.exc = "ZeroDivisionError"]
        ELSE [b EXCEPT
                !.S.lam = asin(a),
                !.S.lom = atan2(sin(c.S.ori),
                                Div(cos(c.S.lat), tan(c.S.slo))
                                + Mul(sin(c.S.lat), cos(c.S.ori))),
                !.S.rot = atan2(sin(c.S.ori),
                                Mul(cos(c.S.ori), cos(c.S.slo))
                                + Mul(sin(c.S.slo), tan(c.S.lat)))]

\* om.py:124-126  the dial is horizontal
wall_flat(c) ==
    [c EXCEPT !.S.lam = c.S.lat, !.S.lom = 0, !.S.rot = c.S.ori, !.out.branch = "flat"]

\* half a degree, the angle under which the program takes a latitude for zero
\* (om.py:607, 638, 646)
HalfDegree == rad(Unit \div 2)

\* a variant of S_init_wall that takes a slope within half a degree of zero
\* for a horizontal dial
S_init_wall_tolerant(c) ==
    IF Abs(c.S.slo) > HalfDegree THEN wall_spherical(c) ELSE wall_flat(c)

\* a variant of S_init_wall that takes every wall for a horizontal dial
S_init_wall_flat(c) == wall_flat(c)

\* om.py:118-126  the equivalent latitude and orientation of the wall
S_init_wall(c) == IF c.S.slo # 0 THEN wall_spherical(c) ELSE wall_flat(c)

\* om.py:139-145  not perpendicular: the gnomon from the length of the style
S_init_style(c) ==
    IF c.exc # "" \/ c.S.perp THEN c
    ELSE LET l == Abs(Mul(cos(c.S.lam), c.S.style)) * (IF c.S.lam < 0 THEN -1 ELSE 1)
         IN  [c EXCEPT !.S.hsty = Abs(Mul(sin(c.S.lam), c.S.style)),
                       !.S.lsty = l,
                       !.S.addx = @ - Mul(sin(c.S.rot), l),
                       !.S.addy = @ + Mul(cos(c.S.rot), l)]

\* a variant of S_init_force without the switch to perpendicular
S_init_force_off(c) == c

\* om.py:146-149  "this failed: auto-switch to perpendicular"
S_init_force(c) ==
    IF c.exc # "" \/ ~(c.S.hsty < SMALL) THEN c
    ELSE [c EXCEPT !.S.hsty = Unit, !.S.perp = TRUE, !.out.forced = TRUE]

\* om.py:150-153  perpendicular: the style from the height of the gnomon
S_init_perp(c) ==
    IF c.exc # "" \/ ~c.S.perp THEN c
    ELSE IF sin(c.S.lam) + SMALL = 0 THEN [c EXCEPT !.exc = "ZeroDivisionError"]
    ELSE IF tan(c.S.lam) + SMALL = 0
    THEN [c EXCEPT !.S.style = Abs(Div(c.S.hsty, sin(c.S.lam) + SMALL)),
                   !.exc = "ZeroDivisionError"]
    ELSE [c EXCEPT !.S.style = Abs(Div(c.S.hsty, sin(c.S.lam) + SMALL)),
                   !.S.lsty = Div(c.S.hsty, tan(c.S.lam) + SMALL)]

\* om.py:155-157  the time difference legal - mean solar
S_init_time(c) ==
    IF c.exc # "" THEN c
    ELSE [c EXCEPT !.S.tdi = c.S.zon + tim(c.S.lon),
                   !.S.tdirad = Mul(Quo(c.S.zon + tim(c.S.lon), 12), PI)]

\* om.py:109-157  S.init(): the fields assigned before an exception keep
\* their values
S_init(c) == S_init_time(S_init_perp(S_init_force(S_init_style(S_init_wall(c)))))

\* om.py:160-162  S.height(): total hsty, with adjustments
height(s) == s.hsty + s.tmpz

\* om.py:164-166  S.ah(hour): legal hour angle (rad) of an hour (fixed point)
ah_of(s, hour) == rad((hour - s.tdi - 12 * Unit) * 15)

\* om.py:168-170  S.set_tmp
set_tmp(c, px, py, pz) ==
    IF c.exc # "" THEN c ELSE [c EXCEPT !.S.tmpx = px, !.S.tmpy = py, !.S.tmpz = pz]

\* om.py:172-174  S.clear_tmp()
clear_tmp(c) ==
    IF c.exc # "" THEN c ELSE [c EXCEPT !.S.tmpx = 0, !.S.tmpy = 0, !.S.tmpz = 0]

\* ----------------------------------------------------------- command line

\* a token of the command line is a Python str: here the sequence of its
\* characters; Join gives back the string
RECURSIVE Join(_)
Join(a) == IF a = <<>> THEN "" ELSE a[1] \o Join(Tail(a))

\* the decimal digits and their values
DigitValue ==
    ("0" :> 0) @@ ("1" :> 1) @@ ("2" :> 2) @@ ("3" :> 3) @@ ("4" :> 4)
    @@ ("5" :> 5) @@ ("6" :> 6) @@ ("7" :> 7) @@ ("8" :> 8) @@ ("9" :> 9)

\* om.py:842  the characters of '0123456789.'
Numeric == DOMAIN DigitValue \cup {"."}

\* the digits of a numeral read as one integer, the dot left out
RECURSIVE Mantissa(_, _)
Mantissa(a, acc) ==
    IF a = <<>> THEN acc
    ELSE Mantissa(Tail(a), IF a[1] = "." THEN acc ELSE 10 * acc + DigitValue[a[1]])

\* the number of digits after the dot, and ten to that power
RECURSIVE Decimals(_)
Decimals(a) ==
    IF a = <<>> THEN 0 ELSE IF a[Len(a)] = "." THEN 0
    ELSE IF \A k \in 1..Len(a) : a[k] # "." THEN 0
    ELSE 1 + Decimals(SubSeq(a, 1, Len(a) - 1))

RECURSIVE TenTo(_)
TenTo(n) == IF n = 0 THEN 1 ELSE 10 * TenTo(n - 1)

\* what float() accepts, the sign apart: digits with at most one dot, one
\* digit at least (the tokens tried have no exponent, no "inf", no "nan")
IsFloat(a) ==
    /\ \A k \in 1..Len(a) : a[k] \in Numeric
    /\ \E k \in 1..Len(a) : a[k] # "."
    /\ \A j, k \in 1..Len(a) : a[j] = "." /\ a[k] = "." => j = k

Unsigned(a) == Quo(Mantissa(a, 0) * Unit, TenTo(Decimals(a)))

Signed(number) == number # <<>> /\ number[1] \in {"+", "-"}

\* the numeral, its sign taken off
Body(number) == IF Signed(number) THEN Tail(number) ELSE number

\* om.py:777-779  atof(number): float(number), and 0 when float() raises
atof(number) ==
    IF ~IsFloat(Body(number)) THEN 0
    ELSE IF number[1] = "-" THEN -Unsigned(Body(number))
    ELSE Unsigned(Body(number))

\* int(): the fixed-point value cut to its integer part, towards zero
int(v) == Quo(v, Unit)

\* om.py:781-783  toggle(arg, state) for '-?', '-?+', '-?-'
toggle(arg, state) ==
    IF SubSeq(arg, 3, Len(arg)) = <<"+">> THEN TRUE
    ELSE IF SubSeq(arg, 3, Len(arg)) = <<"-">> THEN FALSE
    ELSE ~state

\* om.py:842  the length of the longest prefix made of digits and dots
RECURSIVE Span(_)
Span(a) == IF a = <<>> THEN 0 ELSE IF a[1] \notin Numeric THEN 0 ELSE 1 + Span(Tail(a))

\* what is left after the prefix and the one separator that follows it
Rest(a, i) == IF i + 2 > Len(a) THEN <<>> ELSE SubSeq(a, i + 2, Len(a))

\* om.py:839-845  degrees:minutes:seconds, each part 60 times smaller (m is
\* the divisor: 1, 60, 3600, ...)
RECURSIVE Sexagesimal(_, _)
Sexagesimal(a, m) ==
    IF a = <<>> THEN 0
    ELSE Quo(atof(SubSeq(a, 1, Span(a))), m) + Sexagesimal(Rest(a, Span(a)), m * 60)

\* om.py:834-847  the value of an angle or time token: its sign, its parts,
\* radians for an angle
Angle(a, expect) ==
    IF a[1] = "-" THEN
        -(IF expect = "ANG" THEN rad(Sexagesimal(Tail(a), 1)) ELSE Sexagesimal(Tail(a), 1))
    ELSE IF a[1] = "+" THEN
        (IF expect = "ANG" THEN rad(Sexagesimal(Tail(a), 1)) ELSE Sexagesimal(Tail(a), 1))
    ELSE
        (IF expect = "ANG" THEN rad(Sexagesimal(a, 1)) ELSE Sexagesimal(a, 1))

\* om.py:785  X: what the parser is waiting for
X == {"NONE", "ANG", "TIM", "VAL", "INT", "STR", "LIN"}

\* om.py:800-813  the options that wait for a value, with the kind of the
\* value and the attribute it goes to
Waits ==
    [l |-> <<"ANG", "lat">>, g |-> <<"ANG", "lon">>, o |-> <<"ANG", "ori">>,
     p |-> <<"ANG", "slo">>, z |-> <<"TIM", "zon">>,
     d |-> <<"VAL", "hsty">>, s |-> <<"VAL", "style">>,
     h |-> <<"VAL", "addx">>, v |-> <<"VAL", "addy">>,
     H |-> <<"VAL", "totx">>, V |-> <<"VAL", "toty">>,
     e |-> <<"INT", "scale">>, n |-> <<"STR", "name">>]

\* the state of the parser: the context, the global debug, expect, val, mode
\* and the token a of the loop
Parser(c, dbg) ==
    [c |-> c, debug |-> dbg, expect |-> "NONE", val |-> "", mode |-> OFF, a |-> <<>>]

\* exit(status): SystemExit is raised
exit(p, status) ==
    [p EXCEPT !.c.exc = IF status = 0 THEN "SystemExit(0)" ELSE "SystemExit(1)"]

\* om.py:805-806  -d switches the perpendicular mode ON, -s switches it OFF
perp_after_gnomon(letter, perp) == IF letter = "d" THEN ON ELSE perp

perp_after(letter, perp) ==
    IF letter = "d" THEN ON ELSE IF letter = "s" THEN OFF ELSE perp

\* om.py:797-799  -c removes the default values
cleared(s) ==
    [s EXCEPT !.lat = 0, !.lon = 0, !.ori = 0, !.slo = 0, !.zon = 0,
              !.totx = 0, !.toty = 0, !.addx = 0, !.addy = 0]

\* om.py:794-824  the option named by the character after the dash; the
\* token then loses its first two characters
option(p, letter) ==
    IF letter = "?" THEN exit(p, 0)
    ELSE IF letter = "-" THEN
        [p EXCEPT !.debug = TRUE, !.a = SubSeq(@, 3, Len(@))]
    ELSE IF letter = "c" THEN
        [p EXCEPT !.c.S = cleared(@), !.a = SubSeq(@, 3, Len(@))]
    ELSE IF letter \in DOMAIN Waits THEN
        [p EXCEPT !.expect = Waits[letter][1], !.val = Waits[letter][2],
                  !.c.S.perp = perp_after(letter, @), !.a = SubSeq(@, 3, Len(@))]
    ELSE IF letter \in {"x", "i"} THEN
        [p EXCEPT !.expect = "LIN", !.mode = (letter = "i"), !.a = SubSeq(@, 3, Len(@))]
    ELSE IF letter = "k" THEN
        [p EXCEPT !.c.S.noct = toggle(p.a, @), !.a = SubSeq(@, 3, Len(@))]
    ELSE IF letter = "b" THEN
        [p EXCEPT !.c.S.dohigh = toggle(p.a, @), !.a = SubSeq(@, 3, Len(@))]
    ELSE IF letter = "f" THEN
        [p EXCEPT !.c.G.fscrn = toggle(p.a, @), !.a = SubSeq(@, 3, Len(@))]
    ELSE exit(p, 1)

\* om.py:793-794  a token is an option when nothing is waited for and it
\* starts with a dash or a slash (a[0] of an empty token raises IndexError)
get_args_option(p) ==
    IF p.c.exc # "" \/ p.expect # "NONE" THEN p
    ELSE IF p.a = <<>> THEN [p EXCEPT !.c.exc = "IndexError"]
    ELSE IF p.a[1] \notin {"-", "/"} THEN p
    ELSE option(p, IF Len(p.a) >= 2 THEN p.a[2] ELSE "")

\* om.py:851-861  a line family is named by its key in G.lines or by its
\* index; i is int(atof(a))
lines_index(p, i) ==
    IF i < 0 \/ i >= Len(Tags) THEN exit(p, 1)
    ELSE [p EXCEPT !.c.G.on[Tags[i + 1]] = p.mode]

lines_named(p, key) ==
    IF key \in TagSet THEN [p EXCEPT !.c.G.on[key] = p.mode]
    ELSE lines_index(p, int(atof(p.a)))

\* om.py:827-861  what is left of the token is the value that was waited for
value(p) ==
    IF p.expect = "NONE" THEN
        (IF p.a \in {<<"+">>, <<"-">>, <<"+", "-">>} THEN p ELSE exit(p, 1))
    ELSE IF p.expect \in {"ANG", "TIM"} THEN
        [p EXCEPT !.c.S[p.val] = Angle(p.a, p.expect)]
    ELSE IF p.expect = "VAL" THEN [p EXCEPT !.c.S[p.val] = atof(p.a)]
    ELSE IF p.expect = "INT" THEN [p EXCEPT !.c.G.scale = int(atof(p.a))]
    ELSE IF p.expect = "STR" THEN
        [p EXCEPT !.c.G.tofile = Join(p.a), !.c.G.screen = FALSE]
    ELSE lines_named(p, Join(p.a))

\* om.py:862  nothing is waited for any more
expect_none(p) == IF p.c.exc # "" THEN p ELSE [p EXCEPT !.expect = "NONE"]

\* om.py:826-862  an empty rest leaves expect as it is
get_args_value(p) ==
    IF p.c.exc # "" \/ p.a = <<>> THEN p ELSE expect_none(value(p))

\* om.py:792-862  the loop over sys.argv[1:]
RECURSIVE get_args_loop(_, _)
get_args_loop(p, args) ==
    IF args = <<>> THEN p
    ELSE get_args_loop(get_args_value(get_args_option([p EXCEPT !.a = Head(args)])),
                       Tail(args))

\* om.py:864-867  a value is still waited for at the end of the arguments
get_args_end(p) ==
    IF p.c.exc = "" /\ p.expect # "NONE" THEN exit(p, 1) ELSE p

\* ------------------------------------------------------------ entry point

\* om.py:925-979  draw_sundial(...): the arguments, angles in degrees, are
\* stored into S and G; main() then runs get_args() on the command line of
\* the hosting process and goes on to S.init()
draw_sundial(a) ==
    /\ pc \in {"loaded", "done"}
    /\ S' = [S EXCEPT
                !.lat = rad(a.latitude), !.lon = rad(a.longitude),
                !.ori = rad(a.orientation), !.slo = rad(a.slope),
                !.zon = a.time_zone, !.style = a.style_length,
                !.perp = (a.gnomon_height # 0),
                !.hsty = IF a.gnomon_height # 0 THEN a.gnomon_height ELSE S.hsty,
                !.addx = a.add_x, !.addy = a.add_y,
                !.totx = a.wall_width, !.toty = a.wall_height,
                !.noct = a.nocturnal, !.dohigh = a.use_bold]
    /\ G' = [G EXCEPT
                !.scale = a.scale,
                !.on = [t \in TagSet |-> IF t = "_pg" THEN G.on[t] ELSE t \in a.draw],
                !.fscrn = FALSE,
                !.tofile = IF a.file_name # "" THEN a.file_name ELSE G.tofile,
                !.screen = IF a.file_name # "" THEN FALSE ELSE G.screen]
    /\ pc' = "get_args"
    /\ out' = out0
    /\ exc' = ""
    /\ UNCHANGED <<GRI, pos, argv, debug, page>>

\* the parser has gone through the command line: debug is stored with the
\* rest
Parsed(p) ==
    /\ S' = p.c.S
    /\ G' = p.c.G
    /\ exc' = p.c.exc
    /\ pc' = After(p.c, "main")
    /\ debug' = p.debug
    /\ UNCHANGED <<GRI, out, pos, argv, page>>

\* om.py:746, 772-867  get_args(), the first statement of main()
get_args ==
    /\ pc = "get_args"
    /\ Parsed(get_args_end(get_args_loop(Parser(Cur, debug), argv)))

\* om.py:752-763  under debug the calculations are printed and the process
\* exits with status 0 before any drawing
debug_exit(c, dbg) ==
    IF c.exc = "" /\ dbg THEN [c EXCEPT !.exc = "SystemExit(0)"] ELSE c

\* om.py:748-749  the scale is made positive
positive_scale(c) ==
    IF c.exc # "" \/ ~(c.G.scale < 1) THEN c ELSE [c EXCEPT !.G.scale = 100]

\* om.py:747-767  main() after get_args(): S.init(), the scale, the exit
\* under debug, then go_to_work()
main ==
    /\ pc = "main"
    /\ Commit(debug_exit(positive_scale(S_init(Cur)), debug), "go_to_work", pos)

\* ---------------------------------------------------------- render target

\* om.py:235-247  G.activate(tag): the attributes of the line type (its
\* return value is G.on[tag])
activate(g, tag) ==
    [g EXCEPT !.color = IF tag = "_pg" THEN "cbold" ELSE "color", !.active = tag]

\* a coordinate rounded to one decimal place, as round(v, 1)
Round1(v) ==
    LET step == Unit \div 10
    IN  Sgn(v) * ((Abs(v) + step \div 2) \div step) * step

\* om.py:288-290, 405-407  gx: logical to output coordinates; SVG rounds
gx(c, lx) ==
    LET v == ((c.G.maxx + 1) \div 2 + 1) * Unit + c.G.scale * (lx + c.S.addx + c.S.tmpx)
    IN  IF c.GRI.kind = "SVG" THEN Round1(v) ELSE v

\* om.py:292-294, 409-411  gy
gy(c, ly) ==
    LET v == ((c.G.maxy + 1) \div 2 + 1) * Unit - c.G.scale * (ly + c.S.addy + c.S.tmpy)
    IN  IF c.GRI.kind = "SVG" THEN Round1(v) ELSE v

\* a drawing call received by the target while the family G.active is drawn
Called(c, method) ==
    [c EXCEPT !.out.prim[c.G.active] = @ + 1, !.calls = Append(@, method)]

\* what a call of group_start or group_end finds: the pen, and the points
\* the target holds that no line_end has written
edge(c, method) == <<method, c.G.pen, Len(c.GRI.pts)>>

\* om.py:254, 413-417  group_start (a <g> element in SVG, nothing on screen)
group_start(c) ==
    IF c.exc # "" THEN c ELSE
    [c EXCEPT !.out.gstart[c.G.active] = @ + 1, !.out.depth = @ + 1,
              !.out.edges = @ \cup {edge(c, "group_start")},
              !.calls = Append(@, "group_start")]

\* om.py:255, 419-421  group_end
group_end(c) ==
    IF c.exc # "" THEN c ELSE
    [c EXCEPT !.out.gend[c.G.active] = @ + 1, !.out.depth = @ - 1,
              !.out.edges = @ \cup {edge(c, "group_end")},
              !.calls = Append(@, "group_end")]

\* om.py:302-308, 430-435  line_to: on screen a segment from the last position
\* when the pen is down; in SVG the point joins the polyline, which is started
\* anew when the pen is up
line_to(c, lx, ly) ==
    LET pt == <<gx(c, lx), gy(c, ly)>>
        d == [Called(c, "line_to") EXCEPT !.out.bridged = @ \/ (c.G.pen /\ c.out.gap),
                               !.out.gap = FALSE,
                               !.out.run = Append(@, pt),
                               !.G.pen = ON]
    IN  IF c.GRI.kind = "CGA"
        THEN [d EXCEPT !.out.strokes = IF c.G.pen THEN @ + 1 ELSE @,
                       !.GRI.last_pos = pt]
        ELSE [d EXCEPT !.GRI.hdr = IF c.G.pen THEN @ ELSE 1,
                       !.GRI.pts = IF c.G.pen THEN Append(@, pt) ELSE <<pt>>]

\* a variant of flushes that writes a polyline of a single point too
flushes_single(c) == c.GRI.kind = "SVG" /\ c.GRI.hdr + Len(c.GRI.pts) > 1

\* om.py:439  the polyline is written when it has two points or more (the
\* list holds its opening tag too)
flushes(c) == c.GRI.kind = "SVG" /\ c.GRI.hdr + Len(c.GRI.pts) > 2

\* what a pen-lift of the SVG target has done: the number of points sent by
\* line_to since the pen-lift before, the number of polylines written, and
\* whether what was written is these points in their order
lifted(c, written) ==
    IF c.GRI.kind # "SVG" THEN c.out.lifts
    ELSE c.out.lifts \cup {<<Len(c.out.run), written, written = 0 \/ c.GRI.pts = c.out.run>>}

\* om.py:258, 437-442  line_end: the polyline is written and the list
\* emptied, or nothing is done.  out.run is the points sent by line_to since
\* the last pen-lift
line_end(c) ==
    IF flushes(c)
    THEN [c EXCEPT !.out.strokes = @ + 1, !.GRI.hdr = 0, !.GRI.pts = <<>>,
                   !.out.lifts = lifted(c, 1), !.out.run = <<>>,
                   !.calls = Append(@, "line_end")]
    ELSE [c EXCEPT !.out.lifts = lifted(c, 0), !.out.run = <<>>,
                   !.calls = Append(@, "line_end")]

\* om.py:310-315, 444-453  rect
rect(c) == [Called(c, "rect") EXCEPT !.out.rects = @ + 1]

\* om.py:317-320, 455-461  circle
circle(c) == [Called(c, "circle") EXCEPT !.out.circles = @ + 1]

\* om.py:322-326, 463-469  marker
marker(c, lx, ly) == [Called(c, "marker") EXCEPT !.out.markers = @ + 1]

\* om.py:328-359, 471-490  textbox
textbox(c) == [Called(c, "textbox") EXCEPT !.out.texts = @ + 1]

\* ------------------------------------------------------------ go_to_work

\* a variant of startof_line that starts the group without looking at the flag
startof_line_unflagged(c, line_tag) ==
    IF c.exc # "" THEN c ELSE group_start([c EXCEPT !.G = activate(c.G, line_tag)])

\* om.py:543-547  startof_line: the family is activated, and its group is
\* started when it is on; the value returned is c.G.on[line_tag]
startof_line(c, line_tag) ==
    IF c.exc # "" THEN c
    ELSE IF c.G.on[line_tag] THEN group_start([c EXCEPT !.G = activate(c.G, line_tag)])
    ELSE [c EXCEPT !.G = activate(c.G, line_tag)]

\* om.py:549-551  endof_line
endof_line(c) == group_end(c)

\* om.py:553-557  highlight
highlight(c, test) ==
    IF c.exc # "" THEN c ELSE
    [c EXCEPT !.G.color = IF c.S.dohigh /\ test THEN "cbold" ELSE "color"]

\* a variant of penup that lifts the pen and leaves the polyline unwritten
penup_unwritten(c) ==
    IF c.exc # "" THEN c ELSE
    [c EXCEPT !.G.pen = OFF, !.out.gap = FALSE, !.out.penups = @ + 1]

\* om.py:559-561  penup
penup(c) ==
    IF c.exc # "" THEN c ELSE
    line_end([c EXCEPT !.G.pen = OFF, !.out.gap = FALSE, !.out.penups = @ + 1])

\* om.py:563-575  data_point: a point too far from the canvas is dropped
data_point(c, angle, distance, from_base) ==
    IF c.exc # "" THEN c ELSE
    IF Abs(distance) * c.G.scale > c.G.maxx * 10 * Unit THEN c
    ELSE LET px == Mul(sin(angle), distance)
                   + (IF from_base THEN Mul(sin(c.S.rot), c.S.lsty) ELSE 0)
             py == Mul(cos(angle), distance)
                   - (IF from_base THEN Mul(cos(c.S.rot), c.S.lsty) ELSE 0)
         IN  IF c.S.mark THEN marker(c, px, py) ELSE line_to(c, px, py)

\* om.py:582  the sine of the elevation above the equivalent horizontal plane
SinElm(s, tro, ah) ==
    Mul(sin(s.lam), sin(tro)) + Mul(Mul(cos(s.lam), cos(tro)), cos(ah - s.lom))

\* om.py:583  the sine of the true elevation above the horizon
SinEls(s, tro, ah) ==
    Mul(sin(s.lat), sin(tro)) + Mul(Mul(cos(s.lat), cos(tro)), cos(ah))

\* a variant of Visible that forgets the nocturnal mode
Visible_by_day(s, elm, els) == elm > 0 /\ els > 0

\* om.py:584  the test of visibility
Visible(s, elm, els) == elm > 0 /\ (s.noct \/ els > 0)

\* om.py:588  return ( ON ), after the call of data_point: n is the number of
\* drawing calls the family had received before it
shadow_on(c, n) ==
    [c EXCEPT !.ret = ON, !.out.last.ret = ON,
              !.out.last.drew = (c.out.prim[c.G.active] # n)]

\* om.py:582-589  the elevations from their sines se and ss, the test of
\* visibility, and the point drawn when the shadow is visible
shadow_point(c, tro, ah, se, ss) ==
    IF ~InDomain(se) \/ ~InDomain(ss) THEN [c EXCEPT !.exc = "ValueError"]
    ELSE IF ~Visible(c.S, asin(se), asin(ss)) THEN [c EXCEPT !.ret = OFF, !.out.gap = TRUE]
    ELSE IF tan(asin(se)) + SMALL = 0 THEN [c EXCEPT !.exc = "ZeroDivisionError"]
    ELSE shadow_on(data_point(c,
                              atan2(sin(ah - c.S.lom),
                                    Mul(sin(c.S.lam), cos(ah - c.S.lom))
                                    - Mul(cos(c.S.lam), tan(tro)))
                              - c.S.rot,
                              Div(height(c.S), tan(asin(se)) + SMALL),
                              FALSE),
                   c.out.prim[c.G.active])

\* om.py:577-589  shadow(tro, ah); ret is the value returned.  out.seen
\* keeps the values of S.noct and S.mark that the calls of shadow() have met
shadow(c, tro, ah) ==
    IF c.exc # "" THEN c
    ELSE shadow_point([c EXCEPT !.out.proj[c.G.active] = @ + 1,
                                !.out.seen = @ \cup {<<c.S.noct, c.S.mark>>},
                                !.out.last = [called |-> TRUE, tro |-> tro, ah |-> ah,
                                              ret |-> OFF, drew |-> FALSE]],
                      tro, ah, SinElm(c.S, tro, ah), SinEls(c.S, tro, ah))

\* sundata.tropic: the obliquity of the ecliptic, in degrees
tropic == 23440

\* degrees of an angle in radians (math.degrees)
deg(r) == Quo(r * 4068, 71)

\* sundata.sunpos: for each degree of ecliptic longitude (0 at the March
\* equinox) the declination in degrees and the equation of time in minutes
sunpos ==
    [l \in 0..359 |->
        [decl |-> deg(asin(Mul(sin(rad(l * Unit)), sin(rad(tropic))))),
         tequ |-> Mul(9870, sin(rad(2 * l * Unit))) - Mul(7530, cos(rad(l * Unit)))
                  - Mul(1500, sin(rad(l * Unit)))]] @@ <<>>

\* om.py:66  FOURDEG: four degrees in radians
FOURDEG == PI \div 45

\* 0.1, the size of the octahedron
Tenth == Unit \div 10

\* om.py:502-517  shape: the octahedron, by its (x, y, d) offsets
shape ==
    <<  <<0, 0, Tenth>>, <<-Tenth, 0, 0>>, <<0, 0, -Tenth>>, <<Tenth, 0, 0>>,
        <<0, Tenth, 0>>, <<-Tenth, 0, 0>>, <<0, -Tenth, 0>>, <<Tenth, 0, 0>>,
        <<0, 0, Tenth>>, <<0, Tenth, 0>>,  <<0, 0, -Tenth>>, <<0, -Tenth, 0>>,
        <<0, 0, Tenth>> >>

\* om.py:595-598  the frame of the dial: the wall, the foot of the style and
\* the centre
go_frame(c) == circle(circle(circle(rect(c))))

\* om.py:591-599  the render target is made and the frame of the dial drawn
go_begin ==
    /\ pc = "go_to_work"
    /\ Commit(go_frame(Ctx(S, activate(G, "_pg"),
                           [GRI0 EXCEPT !.kind = IF G.screen THEN "CGA" ELSE "SVG",
                                        !.open = TRUE],
                           out)),
              "txt", pos0)

\* om.py:602-603  the text box and the end of its group
txt_box(c) == IF c.G.on["txt"] THEN endof_line(textbox(c)) ELSE c

\* om.py:602-604  the family of the text
txt_lines(c) == txt_box(startof_line(c, "txt"))

\* om.py:601-604  write values
go_txt ==
    /\ pc = "txt"
    /\ Commit(txt_lines(Cur), "std", pos0)

\* om.py:611, 620  the angle of the hour line from the base of the style
ao_of(s, ah) == atan2(Mul(sin(ah - s.lom), sin(s.lam)), cos(ah - s.lom)) - s.rot

\* a variant of hour_line that leaves the pen down
hour_line_pen_down(c, ah) ==
    data_point(data_point(c, 0, 0, TRUE), ao_of(c.S, ah), c.S.lsty, TRUE)

\* om.py:612-614, 623-625  one hour line, from the base of the style
hour_line(c, ah) ==
    penup(data_point(data_point(c, 0, 0, TRUE), ao_of(c.S, ah), c.S.lsty, TRUE))

\* om.py:606-607  standard dial: the family is entered when it is on and the
\* equivalent latitude is more than half a degree away from zero
std_start ==
    /\ pc = "std"
    /\ Commit(startof_line(Cur, "std"),
              IF G.on["std"] /\ Abs(S.lam) > HalfDegree THEN "std_hour" ELSE "ext",
              pos0)

\* om.py:609-614  the body of the loop over the legal hours
std_line(c, hour) == hour_line(highlight(c, hour = 12), ah_of(c.S, hour * Unit))

\* om.py:608-614  the line of one legal hour
std_hour ==
    /\ pc = "std_hour"
    /\ Commit(std_line(Cur, pos.hour),
              IF pos.hour < 24 THEN "std_hour" ELSE "std_end",
              IF pos.hour < 24 THEN [pos EXCEPT !.hour = @ + 1] ELSE pos0)

\* a variant of svg_noon that draws noon again without a group of its own
svg_noon_ungrouped(c) ==
    IF c.GRI.kind = "SVG"
    THEN hour_line(highlight(c, TRUE), ah_of(c.S, 12 * Unit))
    ELSE c

\* om.py:618-626  in SVG noon is drawn again, highlighted, in a group of its own
svg_noon(c) ==
    IF c.GRI.kind = "SVG"
    THEN group_end(hour_line(group_start(highlight(c, TRUE)), ah_of(c.S, 12 * Unit)))
    ELSE c

\* om.py:615-626  the group is ended, and noon drawn again in SVG
std_tail(c) == svg_noon(endof_line(c))

\* om.py:615-626  end of the family
std_end ==
    /\ pc = "std_end"
    /\ Commit(std_tail(Cur), "ext", pos0)

\* om.py:629-630  extreme shadows
ext_start ==
    /\ pc = "ext"
    /\ Commit(startof_line(Cur, "ext"), IF G.on["ext"] THEN "ext_hour" ELSE "hyp", pos0)

\* om.py:639, 643  S.noct = ON, S.noct = OFF
set_noct_on(c, v) == IF c.exc # "" THEN c ELSE [c EXCEPT !.S.noct = ON]

set_noct(c, v) == IF c.exc # "" THEN c ELSE [c EXCEPT !.S.noct = v]

\* om.py:641-642, 648-651  the shadow of a declination within the tropics
shadow_within(c, t, ah) ==
    IF c.exc = "" /\ Abs(t) <= rad(tropic) THEN shadow(c, t, ah) ELSE c

\* om.py:638-643  declination of sun set for that hour, drawn as on a
\* nocturnal dial
ext_sunset(c, ah) ==
    IF c.exc # "" \/ ~(Abs(c.S.lat) > HalfDegree /\ ~c.S.noct) THEN c
    ELSE IF tan(c.S.lat) = 0 THEN [c EXCEPT !.S.noct = ON, !.exc = "ZeroDivisionError"]
    ELSE set_noct(shadow_within(set_noct(c, ON),
                                atan(Div(-cos(ah), tan(c.S.lat))), ah),
                  OFF)

\* om.py:646-651  declination of first shadow on the wall for that hour
ext_first(c, ah) ==
    IF c.exc # "" \/ ~(Abs(c.S.lam) > HalfDegree) THEN c
    ELSE IF tan(c.S.lam) = 0 THEN [c EXCEPT !.exc = "ZeroDivisionError"]
    ELSE LET t == atan(Div(-cos(ah - c.S.lom), tan(c.S.lam)))
         IN  shadow_within(shadow_within(c, t + FOURDEG, ah), t - FOURDEG, ah)

\* om.py:633-655  the shadows of one quarter of an hour, solstice to solstice
ext_shadows(c, ah) ==
    penup(shadow(ext_first(ext_sunset(shadow(c, rad(tropic), ah), ah), ah),
                 rad(-tropic), ah))

\* om.py:633-656  the body of the loop over the quarters of an hour
ext_quarter(c, i) ==
    ext_shadows(highlight(c, i % 4 = 0), ah_of(c.S, (i * Unit) \div 4))

\* om.py:631-656  one quarter of an hour of the extreme shadows
ext_hour ==
    /\ pc = "ext_hour"
    /\ Commit(ext_quarter(Cur, pos.i),
              IF pos.i < 24 * 4 THEN "ext_hour" ELSE "ext_end",
              IF pos.i < 24 * 4 THEN [pos EXCEPT !.i = @ + 1] ELSE pos0)

\* om.py:658
ext_end ==
    /\ pc = "ext_end"
    /\ Commit(endof_line(Cur), "hyp", pos0)

\* om.py:661  conic day-lines
hyp_start ==
    /\ pc = "hyp"
    /\ Commit(startof_line(Cur, "hyp"), IF G.on["hyp"] THEN "hyp_curve" ELSE "teq", pos0)

\* om.py:669-673  the sweep of the hour angle, two degrees at a time: the
\* steps lo..hi of the loop, the n-th at the angle first + n * pi/90
RECURSIVE hyp_sweep(_, _, _, _, _)
hyp_sweep(c, tro, first, lo, hi) ==
    IF c.exc # "" \/ lo > hi THEN c
    ELSE IF lo = hi THEN shadow(c, tro, first + lo * (PI \div 90) + c.S.lom)
    ELSE hyp_sweep(hyp_sweep(c, tro, first, lo, (lo + hi) \div 2),
                   tro, first, (lo + hi) \div 2 + 1, hi)

\* om.py:670  the number of steps of the sweep from first while a <= last
hyp_steps(first, last) == IF first > last THEN 0 ELSE (last - first) \div (PI \div 90) + 1

\* a variant of sets that sends every s to acos
sets_always(s) == TRUE

\* om.py:667, 716  "if s > -1": the sun sets on that day
sets(s) == s > -Unit

\* om.py:667, 716  the hour angle of sun set from s = -tan(t) * tan(lam),
\* for s < 1: pi when the sun never sets
sunset_angle(s) == IF sets(s) THEN acos(s) ELSE PI

\* om.py:667, 716  the evaluation of the sun-set angle: acos raises
\* ValueError outside its domain.  out.acos keeps the arguments acos met
sunset(c, s) ==
    IF c.exc # "" \/ ~sets(s) THEN c
    ELSE [c EXCEPT !.out.acos = @ \cup {s},
                   !.exc = IF InDomain(s) THEN @ ELSE "ValueError"]

\* what the run has done for one declination of a family: s, the sun-set
\* angle when one was taken (-1 otherwise), the shadows projected and
\* the pen-lifts, nproj and npen being their numbers before it
noted(c, s, nproj, npen) ==
    IF c.exc # "" THEN c
    ELSE [c EXCEPT !.out.curves =
              @ \cup {[family |-> c.G.active, s |-> s,
                       angle |-> IF s < Unit THEN sunset_angle(s) ELSE -1,
                       proj |-> c.out.proj[c.G.active] - nproj,
                       lift |-> c.out.penups - npen]}]

\* om.py:666-674  the day-line between sun rise and sun set
hyp_arc(c, tro, s) ==
    IF c.exc # "" \/ ~(s < Unit) THEN c
    ELSE penup(hyp_sweep(sunset(c, s), tro, -sunset_angle(s) + PI \div 180, 0,
                         hyp_steps(-sunset_angle(s) + PI \div 180,
                                   sunset_angle(s) - PI \div 180) - 1))

\* om.py:665  time of sun-set at the horizontal location of the sundial
hyp_day(c, tro) ==
    noted(hyp_arc(c, tro, -Mul(tan(tro), tan(c.S.lam))),
          -Mul(tan(tro), tan(c.S.lam)), c.out.proj["hyp"], c.out.penups)

\* om.py:663-674  the body of the loop over the longitudes l = 90 + 30 * i
hyp_line(c, i) ==
    hyp_day(highlight(c, (90 + 30 * i) % 90 = 0), rad(sunpos[90 + 30 * i].decl))

\* om.py:662-674  the day-line of one declination
hyp_curve ==
    /\ pc = "hyp_curve"
    /\ Commit(hyp_line(Cur, pos.i),
              IF 90 + 30 * pos.i < 270 THEN "hyp_curve" ELSE "hyp_end",
              IF 90 + 30 * pos.i < 270 THEN [pos EXCEPT !.i = @ + 1] ELSE pos0)

\* om.py:675
hyp_end ==
    /\ pc = "hyp_end"
    /\ Commit(endof_line(Cur), "teq", pos0)

\* om.py:678  equation of time
teq_start ==
    /\ pc = "teq"
    /\ Commit(startof_line(Cur, "teq"), IF G.on["teq"] THEN "teq_hour" ELSE "sha", pos0)

\* om.py:684-689  after the shadow of one entry: the pen is lifted where a
\* visible run ends
teq_pen(c) ==
    IF c.exc # "" THEN c
    ELSE IF c.ret THEN [c EXCEPT !.drawing = ON]
    ELSE IF c.drawing THEN [penup(c) EXCEPT !.drawing = OFF]
    ELSE c

\* om.py:683-684  one entry of sunpos at one legal hour
teq_entry(c, ah, l) ==
    teq_pen(shadow(c, rad(sunpos[l].decl), ah + rad(Quo(sunpos[l].tequ, 4))))

\* om.py:683  for l in sunpos: the entries lo..hi, in order
RECURSIVE teq_year(_, _, _, _)
teq_year(c, ah, lo, hi) ==
    IF c.exc # "" \/ lo > hi THEN c
    ELSE IF lo = hi THEN teq_entry(c, ah, lo)
    ELSE teq_year(teq_year(c, ah, lo, (lo + hi) \div 2), ah, (lo + hi) \div 2 + 1, hi)

\* om.py:680-690  the body of the loop over the legal hours
teq_line(c, hour) ==
    penup(teq_year(highlight(c, hour = 12), ah_of(c.S, hour * Unit), 0, 359))

\* om.py:679-690  one legal hour of the equation of time
teq_hour ==
    /\ pc = "teq_hour"
    /\ Commit(teq_line(Cur, pos.hour),
              IF pos.hour < 24 THEN "teq_hour" ELSE "teq_end",
              IF pos.hour < 24 THEN [pos EXCEPT !.hour = @ + 1] ELSE pos0)

\* om.py:691
teq_end ==
    /\ pc = "teq_end"
    /\ Commit(endof_line(Cur), "sha", pos0)

\* om.py:710  shapes
sha_start ==
    /\ pc = "sha"
    /\ Commit(startof_line(Cur, "sha"), IF G.on["sha"] THEN "sha_block" ELSE "idle",
              [pos0 EXCEPT !.i = -3])

\* a variant of set_mark that leaves the marker mode on
set_mark_on(c, v) == IF c.exc # "" THEN c ELSE [c EXCEPT !.S.mark = ON]

\* om.py:720, 725  S.mark = ON, S.mark = OFF
set_mark(c, v) == IF c.exc # "" THEN c ELSE [c EXCEPT !.S.mark = v]

\* om.py:722-724, 726-728  the shadow of the tip displaced to each point of
\* the shape in turn
RECURSIVE sha_shape(_, _, _, _)
sha_shape(c, tro, ah, n) ==
    IF c.exc # "" \/ n > Len(shape) THEN c
    ELSE sha_shape(shadow(set_tmp(c, shape[n][1], shape[n][2], shape[n][3]), tro, ah),
                   tro, ah, n + 1)

\* om.py:729  "S.clear_tmp": the method is named, not called
clear_tmp_statement(c) == c

\* om.py:720-730  the markers and the outline of the shape at one hour
sha_marks(c, tro, ah) ==
    penup(clear_tmp_statement(
        sha_shape(set_mark(sha_shape(shadow(set_mark(c, ON), tro, ah), tro, ah, 1), OFF),
                  tro, ah, 1)))

\* om.py:712  the declination of the i-th twelfth of the year
sha_decl(i) == asin(Mul(sin(Quo(i * PI, 6)), sin(rad(tropic))))

\* om.py:714  time of sun-set for the declination t
sha_sunset(s, t) == -Mul(tan(t), tan(s.lam))

\* om.py:715-730  one hour of one declination, s being the time of sun-set
sha_hour(c, t, ah, s) ==
    IF ~(s < Unit) THEN c
    ELSE IF sunset(c, s).exc # "" THEN sunset(c, s)
    ELSE IF -sunset_angle(s) <= ah - c.S.lom /\ ah - c.S.lom <= sunset_angle(s)
    THEN sha_marks(sunset(c, s), t + SMALL, ah)
    ELSE sunset(c, s)

\* om.py:712-730  the body of the loops over the declinations and the hours
sha_step(c, i, hour) ==
    noted(sha_hour(c, sha_decl(i), ah_of(c.S, hour * Unit), sha_sunset(c.S, sha_decl(i))),
          sha_sunset(c.S, sha_decl(i)), c.out.proj["sha"], c.out.penups)

\* om.py:711-730  one hour of one declination of the shapes; a declination
\* of which the sun never rises is passed in one step
sha_block ==
    /\ pc = "sha_block"
    /\ Commit(sha_step(Cur, pos.i, pos.hour),
              IF (sha_sunset(S, sha_decl(pos.i)) < Unit /\ pos.hour < 24) \/ pos.i < 3
              THEN "sha_block" ELSE "sha_end",
              IF sha_sunset(S, sha_decl(pos.i)) < Unit /\ pos.hour < 24
              THEN [pos EXCEPT !.hour = @ + 1]
              ELSE IF pos.i < 3 THEN [pos EXCEPT !.hour = 0, !.i = @ + 1]
              ELSE pos0)

\* om.py:731
sha_end ==
    /\ pc = "sha_end"
    /\ Commit(endof_line(Cur), "idle", pos0)

\* the events pygame hands to idle()
Events == {"QUIT", "K_ESCAPE", "q", "other key"}

\* om.py:363-377  idle(): on screen the wait ends with an event; sys.exit(1)
\* raises SystemExit inside the try, and the "finally: return" drops it.
\* The event that ended the wait is kept in out.event
idle(ev) ==
    /\ pc = "idle"
    /\ pc' = "close"
    /\ out' = [out EXCEPT !.event = IF GRI.kind = "CGA" THEN ev ELSE @]
    /\ UNCHANGED <<S, G, GRI, pos, exc, argv, debug, page>>

\* om.py:379-381, 492-498  close(): the window is closed; the SVG document
\* gets its closing tag and its sign-out comment, and the file is closed
close ==
    /\ pc = "close"
    /\ GRI' = [GRI EXCEPT !.open = FALSE, !.closed = @ + 1]
    /\ out' = [out EXCEPT !.closing = IF GRI.kind = "SVG" THEN @ + 1 ELSE @]
    /\ pc' = "done"
    /\ UNCHANGED <<S, G, pos, exc, argv, debug, page>>

\* the positions of go_to_work between the making of the render target and
\* the final wait
Drawing ==
    {"txt", "std", "std_hour", "std_end", "ext", "ext_hour", "ext_end",
     "hyp", "hyp_curve", "hyp_end", "teq", "teq_hour", "teq_end",
     "sha", "sha_block", "sha_end"}

\* om.py:415-498  a print() to the file of the SVG document fails (OSError):
\* nothing in go_to_work or main catches it
write_error ==
    /\ pc \in Drawing
    /\ GRI.kind = "SVG"
    /\ GRI.open
    /\ exc' = "OSError"
    /\ pc' = "raised"
    /\ UNCHANGED <<S, G, GRI, out, pos, argv, debug, page>>

\* ----------------------------------------------------------------- inputs

\* the arguments of a call of draw_sundial (om.py:925-949); angles in degrees
Args(la, lo, o, sl, st, gh, no, dr, fn) ==
    [latitude |-> la, longitude |-> lo, orientation |-> o, slope |-> sl,
     time_zone |-> Unit, style_length |-> st, gnomon_height |-> gh,
     add_x |-> 0, add_y |-> 0, wall_width |-> 3 * Unit, wall_height |-> 2 * Unit,
     nocturnal |-> no, use_bold |-> TRUE, scale |-> 200, draw |-> dr, file_name |-> fn]

\* the six line families
Families == {"txt", "std", "ext", "hyp", "teq", "sha"}

\* walls, as <<latitude, longitude, orientation, slope>> in degrees: the wall
\* of the defaults of draw_sundial (rounded to the degree), a horizontal dial
\* on the equator and a gentle slope beyond the polar circle
DefaultWall == <<46 * Unit, -6 * Unit, 12 * Unit, 90 * Unit>>

EquatorDial == <<0, 0, 0, 0>>

PolarSlope == <<-70 * Unit, 0, -30 * Unit, 30 * Unit>>

\* the selections of line families tried on the default wall
Selections == {Families, {}, {"std"}, {"ext"}, {"hyp"}, {"sha"}, {"txt"}}

\* a call for a wall, with a style of length 1
WallArgs(w, no, dr, fn) == Args(w[1], w[2], w[3], w[4], Unit, 0, no, dr, fn)

\* the calls of draw_sundial whose drawing is followed, on screen ("") and to
\* a file
DrawArgs ==
    { WallArgs(DefaultWall, FALSE, dr, fn) : dr \in Selections, fn \in {"", "sundial"} }
    \cup { WallArgs(PolarSlope, no, dr, "sundial") :
             no \in BOOLEAN, dr \in {{"ext"}, {"hyp"}} }
    \cup { WallArgs(PolarSlope, TRUE, {"teq"}, "") }
    \cup { WallArgs(PolarSlope, FALSE, {"sha"}, "sundial") }
    \cup { WallArgs(EquatorDial, FALSE, dr, fn) :
             dr \in {{"std"}, {"std", "ext", "hyp"}}, fn \in {"", "sundial"} }

\* the solver is tried over these angles (degrees; 60 is 0.06 degree, one
\* step of the resolution in radians) ...
SolverLatitudes == {-90 * Unit, -60, 0, 60, 46 * Unit, 90 * Unit}

SolverOrientations == {0, 12 * Unit, -30 * Unit}

SolverSlopes == {0, 60, 300, 30 * Unit, 90 * Unit}

\* ... and these <<style_length, gnomon_height>>: a style, no style at all, a
\* short style, a gnomon, a gnomon of negative height
SolverStyles ==
    {<<Unit, 0>>, <<0, 0>>, <<Unit \div 2, 0>>, <<Unit, 2 * Unit>>, <<Unit, -(Unit \div 2)>>}

\* the calls of draw_sundial that draw no family: the solver alone
SolverArgs ==
    { Args(la, 0, o, sl, st[1], st[2], FALSE, {}, "") :
        la \in SolverLatitudes, o \in SolverOrientations, sl \in SolverSlopes,
        st \in SolverStyles }

\* the first call of the hosting process
RunArgs == DrawArgs \cup SolverArgs

\* the calls that follow a finished run in the same process
RerunArgs ==
    { WallArgs(DefaultWall, FALSE, {"std"}, fn) : fn \in {"", "sundial"} }
    \cup { WallArgs(DefaultWall, FALSE, dr, "") : dr \in {{"sha"}, {"hyp"}} }

\* the calls made with arguments on the command line: the default wall, with
\* a style and with a gnomon, no line family asked for
CliArgs ==
    { Args(DefaultWall[1], DefaultWall[2], DefaultWall[3], DefaultWall[4],
           Unit, gh, FALSE, {}, "") : gh \in {0, 2 * Unit} }

\* the calls the hosting process can make from where it is
Calls ==
    IF argv # <<>> THEN (IF pc = "loaded" THEN CliArgs ELSE {})
    ELSE IF pc = "loaded" THEN RunArgs ELSE RerunArgs

Next ==
    \/ \E a \in Calls : draw_sundial(a)
    \/ get_args
    \/ main
    \/ go_begin
    \/ go_txt
    \/ std_start
    \/ std_hour
    \/ std_end
    \/ ext_start
    \/ ext_hour
    \/ ext_end
    \/ hyp_start
    \/ hyp_curve
    \/ hyp_end
    \/ teq_start
    \/ teq_hour
    \/ teq_end
    \/ sha_start
    \/ sha_block
    \/ sha_end
    \/ \E ev \in Events : idle(ev)
    \/ close
    \/ write_error

Spec == Init /\ [][Next]_vars

\* -------------------------------------------------------- sun-position page

\* st_pages/sunposition.py.  A date is <<year, month, day>>: the buttons
\* leave the time of day alone.  The script runs once when the page is
\* opened and once more at every press of a button and every change of a
\* selection; pressed.runs counts the runs, which the model bounds.
MaxRuns == 5

\* sunposition.py:9  the time frames of the select box, the first being the
\* one selected as the page opens
Frames == <<"year", "month", "day">>

\* the dates on which the page is opened (datetime.today()): ends and starts
\* of months and of years, the leap day, a day in the middle of a month
Todays ==
    { <<2024, 1, 31>>, <<2024, 2, 29>>, <<2024, 3, 31>>, <<2023, 12, 31>>,
      <<2024, 1, 1>>, <<2024, 6, 15>>, <<2023, 3, 1>>, <<2024, 12, 1>> }

\* the Gregorian leap years
leap(y) == (y % 4 = 0 /\ y % 100 # 0) \/ y % 400 = 0

\* the number of days of the month m of the year y
days_in_month(y, m) ==
    IF m = 2 THEN (IF leap(y) THEN 29 ELSE 28)
    ELSE IF m \in {4, 6, 9, 11} THEN 30 ELSE 31

\* datetime.replace(year=y, month=m): the same day of that month, ValueError
\* when the month has no such day
replace(now, y, m) ==
    IF now[3] <= days_in_month(y, m)
    THEN [date |-> <<y, m, now[3]>>, exc |-> ""]
    ELSE [date |-> now, exc |-> "ValueError"]

\* the day after a date
day_after(d) ==
    IF d[3] < days_in_month(d[1], d[2]) THEN <<d[1], d[2], d[3] + 1>>
    ELSE IF d[2] < 12 THEN <<d[1], d[2] + 1, 1>>
    ELSE <<d[1] + 1, 1, 1>>

\* the day before a date
day_before(d) ==
    IF d[3] > 1 THEN <<d[1], d[2], d[3] - 1>>
    ELSE IF d[2] > 1 THEN <<d[1], d[2] - 1, days_in_month(d[1], d[2] - 1)>>
    ELSE <<d[1] - 1, 12, 31>>

\* timedelta(days): a number of days
timedelta(days) == days

\* a date moved by n days, forward for n > 0
RECURSIVE plus_days(_, _)
plus_days(d, n) ==
    IF n = 0 THEN d
    ELSE IF n > 0 THEN plus_days(day_after(d), n - 1)
    ELSE plus_days(day_before(d), n + 1)

\* datetime - timedelta
minus(now, delta) == [date |-> plus_days(now, -delta), exc |-> ""]

\* sunposition.py:21-24  the match of the button "<<<"
previous(now, f) ==
    CASE f = "year" -> replace(now, now[1] - 1, now[2])
      [] f = "month" -> IF now[2] > 1 THEN replace(now, now[1], now[2] - 1)
                        ELSE replace(now, now[1] - 1, 12)
      [] f = "day" -> minus(now, timedelta(-1))

\* sunposition.py:27-30  the match of the button ">>>"
next(now, f) ==
    CASE f = "year" -> replace(now, now[1] + 1, now[2])
      [] f = "month" -> IF now[2] < 12 THEN replace(now, now[1], now[2] + 1)
                        ELSE replace(now, now[1] + 1, 1)
      [] f = "day" -> minus(now, timedelta(1))

\* the record of a run in which a button was pressed, r being what its match
\* has computed; of these records the last two are kept
Pressed(button, now, r) ==
    LET run == [button |-> button, frame |-> frame, before |-> now,
                after |-> r.date, raised |-> r.exc # ""]
    IN  [runs |-> pressed.runs + 1,
         last |-> IF pressed.last = <<>> THEN <<run>>
                  ELSE <<pressed.last[Len(pressed.last)], run>>]

\* sunposition.py:25, 31  st.session_state.current_date = now; the statement
\* is not reached when the match has raised
Stored(r) ==
    IF r.exc = "" THEN [session_state EXCEPT !.current_date = r.date]
    ELSE session_state

\* sunposition.py:14-16  the first run of the script in a session: today is
\* stored as the current date
first_run(today) ==
    /\ "current_date" \notin DOMAIN session_state
    /\ session_state' = [current_date |-> today]
    /\ pressed' = [pressed EXCEPT !.runs = @ + 1]
    /\ UNCHANGED <<tracer, frame>>

\* sunposition.py:17-25  a run of the script after a press of "<<<"
press_previous ==
    /\ "current_date" \in DOMAIN session_state
    /\ pressed.runs < MaxRuns
    /\ session_state' = Stored(previous(session_state.current_date, frame))
    /\ pressed' = Pressed("<<<", session_state.current_date,
                          previous(session_state.current_date, frame))
    /\ UNCHANGED <<tracer, frame>>

\* sunposition.py:17-18, 26-31  a run of the script after a press of ">>>"
press_next ==
    /\ "current_date" \in DOMAIN session_state
    /\ pressed.runs < MaxRuns
    /\ session_state' = Stored(next(session_state.current_date, frame))
    /\ pressed' = Pressed(">>>", session_state.current_date,
                          next(session_state.current_date, frame))
    /\ UNCHANGED <<tracer, frame>>

\* sunposition.py:9, 17-18  a run of the script after another time frame is
\* selected: no button is pressed, the current date stays
select_frame(f) ==
    /\ "current_date" \in DOMAIN session_state
    /\ pressed.runs < MaxRuns
    /\ f # frame
    /\ frame' = f
    /\ pressed' = [pressed EXCEPT !.runs = @ + 1]
    /\ UNCHANGED <<tracer, session_state>>

\* a session that opens the page: the tracer is loaded and left alone
PageInit ==
    /\ S = S0 /\ G = G0 /\ GRI = GRI0 /\ out = out0
    /\ pc = "loaded" /\ pos = pos0 /\ exc = ""
    /\ argv = <<>> /\ debug = FALSE
    /\ session_state = <<>>
    /\ frame = Frames[1]
    /\ pressed = pressed0

PageNext ==
    \/ \E today \in Todays : first_run(today)
    \/ press_previous
    \/ press_next
    \/ \E n \in 1..Len(Frames) : select_frame(Frames[n])

SunPosition == PageInit /\ [][PageNext]_vars

\* ----------------------------------------------------------------- claims

\* the run has passed S.init()
Resolved == pc \notin {"loaded", "get_args", "main", "exited"}

\* the temporary displacement of the gnomon is cleared
TmpZero == S.tmpx = 0 /\ S.tmpy = 0 /\ S.tmpz = 0

\* C1: in the auxiliary-shapes family the temporary displacement of the gnomon
\* is back to (0, 0, 0) after every shape block, hence when the family ends
\* and when the render target is closed.
C1_TmpCleared == pc \in {"sha_block", "sha_end", "idle", "close", "done"} => TmpZero

\* C2: a line family whose flag is off receives nothing in a run: no group
\* start, no group end, no drawing call, and no shadow is projected for it.
C2_OffEmitsNothing ==
    \A t \in Families :
        ~G.on[t] => /\ out.gstart[t] = 0
                    /\ out.gend[t] = 0
                    /\ out.prim[t] = 0
                    /\ out.proj[t] = 0

\* a finished run that drew day-lines, with two other families off
C2_Witness ==
    pc = "done" /\ ~G.on["ext"] /\ ~G.on["teq"] /\ G.on["hyp"] /\ out.prim["hyp"] > 0

\* C3: in the families that project shadows, the pen is lifted after a step
\* that yields no visible point, so that no stroke joins two visible points
\* across a step that is not visible.
C3_PenLifted == ~out.bridged

\* the elevations of the last call of shadow()
LastElm == asin(SinElm(S, out.last.tro, out.last.ah))

LastEls == asin(SinEls(S, out.last.tro, out.last.ah))

\* C4: shadow() reports visible exactly when elm > 0 and (nocturnal mode is on
\* or els > 0); with elm <= 0 it reports not visible whatever the mode, and
\* when it reports not visible nothing is drawn.
C4_Visibility ==
    out.last.called /\ exc = "" =>
        /\ out.last.ret <=> (LastElm > 0 /\ (S.noct \/ LastEls > 0))
        /\ LastElm <= 0 => ~out.last.ret
        /\ ~out.last.ret => ~out.last.drew

\* a shadow reported visible in nocturnal mode while the sun is under the
\* true horizon, and drawn
C4_Witness ==
    out.last.called /\ out.last.ret /\ out.last.drew /\ S.noct /\ LastEls <= 0

\* the run is finished, the standard dial was its only family, the equivalent
\* latitude is more than half a degree from zero and the base of the style
\* is within the range data_point keeps
StdOnlyDone ==
    /\ pc = "done"
    /\ \A t \in Families : G.on[t] <=> t = "std"
    /\ Abs(S.lam) > HalfDegree
    /\ Abs(S.lsty) * G.scale <= G.maxx * 10 * Unit

\* the primitives received by the render target, the closing marker included
Primitives ==
    out.rects + out.circles + out.strokes + out.markers + out.texts + out.closing

\* C5, as claimed: with the standard dial alone (and |lam| > 0.5 degree) the
\* run emits 25 primitives, one per legal hour, plus one closing marker.
C5_HoursPlusMarker == StdOnlyDone => Primitives = 25 + 1

\* C5, as the program does it: with the standard dial alone the run emits the
\* frame (one rectangle, three circles) and the 25 hour lines; to a file it
\* adds noon once more, in a second group, and the closing marker; the screen
\* gets no closing marker.
C5_FrameHoursNoon ==
    StdOnlyDone =>
        /\ out.rects = 1
        /\ out.circles = 3
        /\ out.markers = 0
        /\ out.texts = 0
        /\ out.strokes = (IF GRI.kind = "SVG" THEN 25 + 1 ELSE 25)
        /\ out.gstart["std"] = (IF GRI.kind = "SVG" THEN 2 ELSE 1)
        /\ out.closing = (IF GRI.kind = "SVG" THEN 1 ELSE 0)

\* a finished run to a file with the standard dial alone: 4 + 26 + 1
C5_Witness == StdOnlyDone /\ GRI.kind = "SVG" /\ Primitives = 31

\* C6: with |lam| <= 0.5 degree the standard dial is skipped entirely: no
\* group start, no group end, no hour line, even when its flag is on.
C6_StdSkipped ==
    Resolved /\ Abs(S.lam) <= HalfDegree =>
        out.gstart["std"] = 0 /\ out.gend["std"] = 0 /\ out.prim["std"] = 0

\* C7: when S.init() returns, a gnomon height under SMALL (derived from the
\* style, or given) has been replaced by 1 with the perpendicular mode on, and
\* hsty >= SMALL.
C7_GnomonForced ==
    [][pc = "main" /\ pc' = "go_to_work" =>
        /\ S'.hsty >= SMALL
        /\ (IF S.perp THEN S.hsty ELSE Abs(Mul(sin(S'.lam), S.style))) < SMALL
           => S'.perp /\ S'.hsty = Unit]_vars

\* S.init() has returned after the switch to perpendicular
C7_Witness == pc = "go_to_work" /\ out.forced /\ S.perp /\ S.hsty = Unit

\* C8: S.init() never raises, whatever the latitude, orientation, slope,
\* mode and style or height: no run ends by an exception before the frame
\* of the dial is drawn.
C8_SolverNeverFails == ~(pc = "raised" /\ out.rects = 0)

\* the values of the horizontal dial
FlatValues == S.lam = S.lat /\ S.lom = 0 /\ S.rot = S.ori

\* C9, as claimed: a slope of zero, or within a small tolerance of zero,
\* takes the branch of the horizontal dial and yields exactly lam = lat,
\* lom = 0, rot = orientation.
C9_NearZeroFlat ==
    Resolved /\ Abs(S.slo) <= HalfDegree => out.branch = "flat" /\ FlatValues

\* C9, as the program does it: a slope of exactly zero takes the branch of the
\* horizontal dial, with lam = lat, lom = 0, rot = orientation; any other
\* slope, however small, goes through the spherical formulas.
C9_ZeroSlopeFlat ==
    Resolved =>
        IF S.slo = 0 THEN out.branch = "flat" /\ FlatValues
        ELSE out.branch = "spherical"

\* a horizontal dial away from the equator, turned, resolved
C9_Witness ==
    pc = "go_to_work" /\ S.slo = 0 /\ S.lat # 0 /\ S.ori # 0 /\ out.branch = "flat"

\* C10: a run that has opened a render target has closed it when the process
\* ends, however it ends: normally, by a quit during the wait, by an error.
C10_TargetClosed == pc \in {"done", "raised"} => ~GRI.open

\* the exit status of the process where it stands: 0 after exit(0) and for a
\* run that returns, 1 after exit(1) and after an exception nothing catches
ExitStatus == IF exc \in {"", "SystemExit(0)"} THEN 0 ELSE 1

\* the events that ask to quit
Quits == {"QUIT", "K_ESCAPE", "q"}

\* C11: on screen, a wait ended by a quit (window QUIT, Escape, 'q') ends the
\* process with a non-zero status; a wait ended by any other key lets the run
\* go on and complete with status zero.
C11_QuitStatus ==
    /\ out.event \in Quits => pc = "exited" /\ ExitStatus # 0
    /\ out.event = "other key" => pc \in {"close", "done"} /\ ExitStatus = 0

\* C12: a line selection (-x / -i) whose value is neither a known family name
\* nor an index within 0..len(lines)-1 is fatal: get_args exits with a
\* non-zero status, before S.init() and any drawing, and no on-flag is changed.
C12_UnknownLineFatal ==
    [][pc = "get_args" /\ argv \in UnknownLineCommands
       => pc' = "exited" /\ exc' = "SystemExit(1)" /\ G'.on = G.on]_vars

\* C13: a malformed angle, time or numeric value given to an option that
\* expects a value is fatal: the run exits with a non-zero status before any
\* geometry is computed, and the parameter aimed at is not assigned.
C13_MalformedValueFatal ==
    [][pc = "get_args" /\ argv \in MalformedValueCommands
       => pc' = "exited" /\ exc' = "SystemExit(1)"
          /\ (\A f \in {"lat", "lon", "ori", "slo", "zon", "hsty", "style"} : S'[f] = S[f])
          /\ G'.scale = G.scale]_vars

\* C14: an option that expects a value and is not followed by one (the
\* command line ends, or another option follows), and a bare token while no
\* option waits for a value, make get_args exit with a non-zero status before
\* S.init() and any drawing.
C14_MissingValueFatal ==
    [][pc = "get_args" /\ argv \in MissingValueCommands \cup BareTokenCommands
       => pc' = "exited" /\ exc' = "SystemExit(1)"]_vars

\* the -d and -s options of the command line, when it is made of them
Given == CHOOSE opts \in GnomonOptions : Spelled(opts) = argv

\* the last of them
LastGiven == Given[Len(Given)]

Working == Drawing \cup {"go_to_work", "idle", "close"}

\* the dial parameters the claim lists
Frozen ==
    {"lat", "lon", "lam", "lom", "rot", "hsty", "lsty", "style", "perp",
     "addx", "addy", "noct", "mark", "dohigh"}

\* C16 as claimed: between the end of S.init() and the close of the render
\* target nothing of S changes but tmpx/tmpy/tmpz: every call of shadow()
\* meets the noct and the mark of the run.
C16_NothingButTmp ==
    pc \in Working /\ exc = "" => \A w \in out.seen : w = <<S.noct, S.mark>>

\* C16: from one step of go_to_work to the next (an hour, a curve, a block, a
\* family) lat, lon, lam, lom, rot, hsty, lsty, style, perp, addx, addy, noct,
\* mark and dohigh keep their values; noct and mark are only switched inside
\* a step, and are back when it ends.
C16_FrozenBetweenSteps ==
    [][pc' \in Working \cup {"done"} /\ pc \in Working
       => \A f \in Frozen : S'[f] = S[f]]_vars

\* reached: the ext family has projected a shadow under noct = ON in a run
\* whose noct is OFF, and noct is OFF again
C16_Witness ==
    pc = "ext_hour" /\ ~S.noct /\ <<ON, OFF>> \in out.seen /\ <<OFF, OFF>> \in out.seen

\* the drawing is over: the run is at the final wait or beyond
Drawn == pc \in {"idle", "close", "done"}

Projected == \E t \in Families \ {"sha"} : out.proj[t] > 0

\* C18: in a run with the shapes family disabled the displacement that
\* S.height() and gx/gy add to every projection is zero, whatever was drawn
\* before in the same process: the run emits what it emits in a fresh process.
C18_NoDisplacementLeft ==
    pc \in Working /\ ~G.on["sha"] /\ Projected => TmpZero

\* S.init() has returned for the vertical south wall at latitude 46 degrees
VerticalSouth ==
    /\ pc = "go_to_work"
    /\ S.lat = rad(46 * Unit) /\ S.ori = 0 /\ S.slo = rad(90 * Unit)

\* C19 as claimed: for latitude 46, orientation 0 and slope 90 degrees lam is
\* 90 degrees minus the latitude, +44 degrees, within tolerance, and rot is
\* the orientation.
C19_ComplementaryLatitude ==
    VerticalSouth => Abs(S.lam - rad(44 * Unit)) <= HalfDegree /\ S.rot = S.ori

\* C19: for latitude 46, orientation 0 and slope 90 degrees lam is the
\* latitude minus 90 degrees, -44 degrees, within half a degree (the
\* complementary latitude on the other side of the equator), and rot is the
\* orientation.
C19_OppositeComplement ==
    VerticalSouth
    => /\ Abs(S.lam - rad(46 * Unit - 90 * Unit)) <= HalfDegree
       /\ S.rot = S.ori
       /\ out.branch = "spherical"

\* reached: the wall is solved, lam is negative
C19_Witness == VerticalSouth /\ S.lam < 0 /\ S.rot = 0 /\ ~S.perp

\* C20: polyline protocol of the vector back end.  At every pen-lift the
\* points sent by line_to since the pen-lift before are written as one
\* polyline, these points and no other, in their order, when they are two or
\* more; nothing is written for a single point, and nothing by a pen-lift
\* that follows another without a line_to in between.
C20_PolylineProtocol ==
    GRI.kind = "SVG"
    => \A l \in out.lifts : l[2] = (IF l[1] >= 2 THEN 1 ELSE 0) /\ l[3]

\* reached: a document whose pen-lifts met no point, a single point, two
\* points and a longer run of them
C20_Witness ==
    /\ pc = "done" /\ GRI.kind = "SVG"
    /\ {<<0, 0, TRUE>>, <<1, 0, TRUE>>, <<2, 1, TRUE>>} \subseteq out.lifts
    /\ \E l \in out.lifts : l[1] > 2 /\ l[2] = 1

\* C21: in the conic day-lines and in the shapes acos only meets an argument
\* s with -1 < s < 1.  When s <= -1 the sun-set angle is pi; when s >= 1 the
\* declination is passed with no projection and no pen-lift; for the s in
\* between the angle is acos(s).  So no sun-set angle outside the domain of
\* the arccosine ends the run.
C21_SunsetDomain ==
    /\ \A a \in out.acos : -Unit < a /\ a < Unit
    /\ \A k \in out.curves :
        /\ k.family \in {"hyp", "sha"}
        /\ k.s <= -Unit => k.angle = PI /\ k.s \notin out.acos
        /\ k.s >= Unit => k.proj = 0 /\ k.lift = 0 /\ k.s \notin out.acos
        /\ -Unit < k.s /\ k.s < Unit => k.angle = acos(k.s) /\ k.s \in out.acos

\* reached: a finished run whose family has met a day the sun never sets,
\* projected over the whole circle, a day it never rises, and a day between
C21_Witness ==
    /\ pc = "done"
    /\ \E k \in out.curves : k.s <= -Unit /\ k.proj > 0 /\ k.lift = 1
    /\ \E k \in out.curves : k.s >= Unit
    /\ \E k \in out.curves : -Unit < k.s /\ k.s < Unit /\ k.proj > 0

\* the context of the running handler, had the run been given the other
\* render target: S, G and the family flags are the same
Twin == [Cur EXCEPT !.GRI.kind = IF GRI.kind = "CGA" THEN "SVG" ELSE "CGA"]

\* the context the step of go_to_work at pc makes of the context c
Step(c) ==
    CASE pc = "txt" -> txt_lines(c)
      [] pc \in {"std", "ext", "hyp", "teq", "sha"} -> startof_line(c, pc)
      [] pc = "std_hour" -> std_line(c, pos.hour)
      [] pc = "std_end" -> std_tail(c)
      [] pc = "ext_hour" -> ext_quarter(c, pos.i)
      [] pc = "hyp_curve" -> hyp_line(c, pos.i)
      [] pc = "teq_hour" -> teq_line(c, pos.hour)
      [] pc = "sha_block" -> sha_step(c, pos.i, pos.hour)
      [] pc \in {"ext_end", "hyp_end", "teq_end", "sha_end"} -> endof_line(c)
      [] OTHER -> c

\* C22: the geometry engine depends only on the drawing interface.  From the
\* same S, G and family flags, every step of go_to_work makes the same calls
\* of group_start, group_end, line_to, line_end, rect, circle, marker and
\* textbox, in the same order, on the interactive and on the vector back end.
C22_SameCalls == pc \in Drawing => Step(Cur).calls = Step(Twin).calls

\* the positions of go_to_work between two line families, and after the last
BetweenFamilies == {"txt", "std", "ext", "hyp", "teq", "sha", "idle", "close", "done"}

\* C23: groups are balanced and never nested.  While a run goes on without
\* an exception no group is started inside another, and every group started
\* is ended before the next family, before the final wait and before
\* close(), whatever the family flags and whatever lam.
C23_GroupsBalanced ==
    exc = "" =>
        /\ out.depth \in {0, 1}
        /\ pc \in BetweenFamilies => out.depth = 0
        /\ pc \in BetweenFamilies => \A t \in TagSet : out.gstart[t] = out.gend[t]

\* the positions at which a family other than sha is drawn
BeforeShapes == Drawing \ {"sha_block", "sha_end"}

C25_PenUpAtEdges ==
    /\ \A e \in out.edges : e[2] = OFF /\ e[3] < 2
    /\ pc = "close" => G.pen = OFF /\ Len(GRI.pts) < 2

\* reached: close() is about to be called on a document in which groups
\* were started and ended and polylines written, after pen-lifts that met
\* two points or more and pen-lifts that met a single point
C25_Witness ==
    /\ pc = "close" /\ GRI.kind = "SVG" /\ out.strokes > 1
    /\ \E e \in out.edges : e[1] = "group_start"
    /\ \E e \in out.edges : e[1] = "group_end"
    /\ \E l \in out.lifts : l[1] >= 2
    /\ \E l \in out.lifts : l[1] = 1

\* the date a is one time frame f before the date b: the same day a year or
\* a month earlier, or the day before
OneFrameBefore(a, b, f) ==
    CASE f = "year" -> a = <<b[1] - 1, b[2], b[3]>>
      [] f = "month" -> a = (IF b[2] > 1 THEN <<b[1], b[2] - 1, b[3]>>
                             ELSE <<b[1] - 1, 12, b[3]>>)
      [] f = "day" -> a = day_before(b)

\* C26: in the sun-position page, for each time frame, a press of "<<<"
\* stores a date one frame unit before the date that was stored and a press
\* of ">>>" a date one frame unit after it, so that "<<<" followed by ">>>"
\* in the same time frame stores the first date again.
C26_PreviousNext ==
    /\ \A n \in 1..Len(pressed.last) :
        /\ ~pressed.last[n].raised
        /\ pressed.last[n].button = "<<<"
            => OneFrameBefore(pressed.last[n].after, pressed.last[n].before,
                              pressed.last[n].frame)
        /\ pressed.last[n].button = ">>>"
            => OneFrameBefore(pressed.last[n].before, pressed.last[n].after,
                              pressed.last[n].frame)
    /\ ( /\ Len(pressed.last) = 2
         /\ pressed.last[1].button = "<<<" /\ pressed.last[2].button = ">>>"
         /\ pressed.last[1].frame = pressed.last[2].frame )
       => pressed.last[2].after = pressed.last[1].before

====
